---- MODULE Spec2Model ----
(***************************************************************************)
(* Merf Stock Engine (src/script/stock_service.py): the /analyze handler,  *)
(* the Yahoo Finance fetch with its staged validation, the period table    *)
(* and the Wilder RSI.                                                     *)
(*                                                                         *)
(* Numbers.  Close prices are whole numbers (JSON integers).  Every float  *)
(* the service rounds to two decimals (rsi, change_percent, price) is kept *)
(* as an integer count of hundredths: 50.0 is 5000, 100.0 is 10000.  The   *)
(* Wilder averages are exact fractions num/den.  A float operation that    *)
(* can raise is a record [exc, val]; exc = "none" means it returned val.   *)
(*                                                                         *)
(* Time.  A reading of the wall clock is its whole second since the Unix   *)
(* epoch, with a flag telling whether it fell exactly on that second; the  *)
(* process runs in UTC and the modelled span holds one year boundary.      *)
(***************************************************************************)
EXTENDS Integers, Sequences, FiniteSets, TLC

VARIABLES pc, request, call, reply, resp, clock, closesIn, rsiOut

vars == <<pc, request, call, reply, resp, clock, closesIn, rsiOut>>

svcVars == <<pc, request, call, reply, resp, clock>>

rsiVars == <<closesIn, rsiOut>>

-----------------------------------------------------------------------------
(* Bounds of the model *)

\* concurrent /analyze requests in flight
NumReqs == 2

\* longest close-price series the RSI is run on
MaxLen == 17

\* most seconds that pass between the first and the last reading of the clock
\* within one request
MaxSkew == 1

\* longest raw symbol built from SymbolChars
MaxSymLen == 6

-----------------------------------------------------------------------------
(* Arithmetic helpers *)

Abs(x) == IF x < 0 THEN -x ELSE x

\* floor division for any sign of n, d > 0
FloorDiv(n, d) == IF n >= 0 THEN n \div d ELSE -(((-n) + d - 1) \div d)

\* n/d rounded to the nearest integer, ties to even (Python's round), d > 0
RoundDiv(n, d) ==
    LET q == FloorDiv(n, d)
        r == n - q * d
    IN  IF 2 * r < d THEN q
        ELSE IF 2 * r > d THEN q + 1
        ELSE IF q % 2 = 0 THEN q ELSE q + 1

\* 100 * n / d in hundredths (so 10000*n/d rounded), by long division to keep
\* the intermediate products small; 0 <= n, 0 < d
PercentHundredths(n, d) ==
    LET a  == 100 * n
        q1 == a \div d
        r1 == a % d
        b  == 100 * r1
        q2 == b \div d
        r2 == b % d
        h  == q1 * 100 + q2
    IN  IF 2 * r2 < d THEN h
        ELSE IF 2 * r2 > d THEN h + 1
        ELSE IF h % 2 = 0 THEN h ELSE h + 1

Returned(v) == [exc |-> "none", val |-> v]

Raised(e) == [exc |-> e, val |-> 0]

RECURSIVE SumFirst(_, _)
SumFirst(xs, n) == IF n = 0 THEN 0 ELSE SumFirst(xs, n - 1) + xs[n]

-----------------------------------------------------------------------------
(* calculate_rsi *)

window_default == 14

Deltas(closes) == [i \in 1..(Len(closes) - 1) |-> closes[i + 1] - closes[i]]

Gains(deltas) == [i \in 1..Len(deltas) |-> IF deltas[i] > 0 THEN deltas[i] ELSE 0]

\* lines 50-56 appending abs(d) to losses on both branches
LossesBoth(deltas) == [i \in 1..Len(deltas) |-> Abs(deltas[i])]

Losses(deltas) ==
    [i \in 1..Len(deltas) |-> IF deltas[i] > 0 THEN 0 ELSE Abs(deltas[i])]

\* the average after the seed and the recurrence steps window+1 .. upto, as
\* the fraction num/den: seed = sum(xs[:window]) / window, then
\* avg = (avg * (window - 1) + xs[i]) / window
RECURSIVE WilderAvg(_, _, _)
WilderAvg(xs, window, upto) ==
    IF upto = window
    THEN [num |-> SumFirst(xs, window), den |-> window]
    ELSE LET p == WilderAvg(xs, window, upto - 1)
         IN  [num |-> p.num * (window - 1) + xs[upto] * p.den, den |-> p.den * window]

\* lines 71-74: avg_gain and avg_loss have the same denominator, so
\* rs = avg_gain.num / avg_loss.num and 100 - 100/(1+rs) = 100*g/(g+l), rounded
\* to two decimals; the division by avg_loss raises when avg_loss is 0, and
\* 1 + rs >= 1 is never 0
RsiFormula(avg_gain, avg_loss) ==
    IF avg_loss.num = 0
    THEN Raised("ZeroDivisionError")
    ELSE Returned(PercentHundredths(avg_gain.num, avg_gain.num + avg_loss.num))

\* lines 68-74 without the zero-loss return
RsiOfAveragesUnguarded(avg_gain, avg_loss) == RsiFormula(avg_gain, avg_loss)

\* lines 68-74
RsiOfAverages(avg_gain, avg_loss) ==
    IF avg_loss.num = 0 THEN Returned(10000) ELSE RsiFormula(avg_gain, avg_loss)

calculate_rsi(closes, window) ==
    IF Len(closes) < window + 1
    THEN Returned(5000)
    ELSE LET deltas == Deltas(closes)
             gains  == Gains(deltas)
             losses == Losses(deltas)
         IN  IF Len(gains) < window
             THEN Returned(5000)
             ELSE RsiOfAverages(WilderAvg(gains, window, Len(gains)),
                                WilderAvg(losses, window, Len(losses)))

-----------------------------------------------------------------------------
(* Close-price series the RSI is exercised on: a start price and Len-1     *)
(* steps in three segments, the first alternating two step sizes.          *)

Steps == {-2, -1, 0, 1, 2}

StartPrice == 2 * MaxLen

SeriesOf(n, a, b, d1, d2, d3) ==
    [i \in 1..n |->
        StartPrice
        + SumFirst([j \in 1..(n - 1) |->
                      IF j <= a THEN (IF j % 2 = 1 THEN d1 ELSE d2)
                      ELSE IF j <= a + b THEN d3 ELSE d1], i - 1)]

RsiInputs ==
    { SeriesOf(n, a, b, d1, d2, d3) :
        n \in 1..MaxLen, a \in {0, 1, 2, 3, 5, 7, 14}, b \in {0, 1, 2, 7, 14},
        d1 \in Steps, d2 \in Steps, d3 \in Steps }

NoRsi == [exc |-> "pending", val |-> 0]

-----------------------------------------------------------------------------
(* Wall clock *)

Day == 24 * 3600

\* 2027-01-01T00:00:00Z and 2026-01-01T00:00:00Z in epoch seconds
NewYear == 20819 * Day

PrevNewYear == NewYear - 365 * Day

MidYear == NewYear - 200 * Day

\* datetime(datetime.now().year, 1, 1) for a reading t of the clock
JanFirst(t) == IF t >= NewYear THEN NewYear ELSE PrevNewYear

-----------------------------------------------------------------------------
(* get_period_seconds *)

PeriodKeys == {"1d", "5d", "1mo", "3mo", "6mo", "1y", "2y", "5y", "10y", "ytd", "max"}

\* int(x.total_seconds()) for x = (t1 + fraction) - j, the fraction being 0
\* when exact1: int() truncates towards zero, so a negative x is rounded up
int_elapsed(t1, exact1, j) ==
    IF t1 >= j \/ exact1 THEN t1 - j ELSE t1 - j + 1

\* t1 is the clock read by the first datetime.now() of line 88 and t2 the
\* one read for .year
period_map(t1, exact1, t2) ==
    [k \in PeriodKeys |->
        CASE k = "1d"  -> 86400
          [] k = "5d"  -> 5 * 86400
          [] k = "1mo" -> 30 * 86400
          [] k = "3mo" -> 90 * 86400
          [] k = "6mo" -> 180 * 86400
          [] k = "1y"  -> 365 * 86400
          [] k = "2y"  -> 2 * 365 * 86400
          [] k = "5y"  -> 5 * 365 * 86400
          [] k = "10y" -> 10 * 365 * 86400
          [] k = "ytd" -> int_elapsed(t1, exact1, JanFirst(t2))
          [] k = "max" -> 50 * 365 * 86400]

get_period_seconds(period, t1, exact1, t2) ==
    IF period \in PeriodKeys THEN period_map(t1, exact1, t2)[period] ELSE 30 * 86400

-----------------------------------------------------------------------------
(* Symbols: strings as sequences of one-character strings *)

LowerChars ==
    <<"a", "b", "c", "d", "e", "f", "g", "h", "i", "j", "k", "l", "m",
      "n", "o", "p", "q", "r", "s", "t", "u", "v", "w", "x", "y", "z">>

UpperChars ==
    <<"A", "B", "C", "D", "E", "F", "G", "H", "I", "J", "K", "L", "M",
      "N", "O", "P", "Q", "R", "S", "T", "U", "V", "W", "X", "Y", "Z">>

upper_char(c) ==
    IF \E i \in 1..Len(LowerChars) : LowerChars[i] = c
    THEN UpperChars[CHOOSE i \in 1..Len(LowerChars) : LowerChars[i] = c]
    ELSE c

upper(s) == [i \in 1..Len(s) |-> upper_char(s[i])]

endswith(s, suffix) ==
    /\ Len(s) >= Len(suffix)
    /\ \A i \in 1..Len(suffix) : s[Len(s) - Len(suffix) + i] = suffix[i]

contains(s, sub) ==
    \E k \in 0..(Len(s) - Len(sub)) : \A i \in 1..Len(sub) : s[k + i] = sub[i]

\* lines 156-158 with len(symbol) < 5
normalize_symbolShort(raw) ==
    LET symbol == upper(raw)
    IN  IF Len(symbol) < 5 /\ ~endswith(symbol, <<".", "I", "S">>)
           /\ ~contains(symbol, <<"U", "S", "D">>)
        THEN symbol \o <<".", "I", "S">>
        ELSE symbol

\* lines 156-158
normalize_symbol(raw) ==
    LET symbol == upper(raw)
    IN  IF Len(symbol) <= 5 /\ ~endswith(symbol, <<".", "I", "S">>)
           /\ ~contains(symbol, <<"U", "S", "D">>)
        THEN symbol \o <<".", "I", "S">>
        ELSE symbol

-----------------------------------------------------------------------------
(* The provider's answer.  outcome is "response" when requests.get returned,  *)
(* else the exception it raised.  The JSON body is kept level by level: each  *)
(* key is "absent", "null", or present ("obj", "empty" / "list" for arrays);  *)
(* a level below an absent one is not looked at.  closes is the close array,  *)
(* Null standing for a JSON null.                                             *)

Null == 0 - 1

NoReply ==
    [outcome |-> "pending", status_code |-> 0, json |-> "absent", chart |-> "absent",
     result |-> "absent", indicators |-> "absent", quote |-> "absent",
     close |-> "absent", closes |-> <<>>, meta |-> "absent"]

Failure(exc) == [NoReply EXCEPT !.outcome = exc]

Status(code) == [NoReply EXCEPT !.outcome = "response", !.status_code = code]

Body(json, chart, result, indicators, quote, close, closes, meta) ==
    [outcome |-> "response", status_code |-> 200, json |-> json, chart |-> chart,
     result |-> result, indicators |-> indicators, quote |-> quote,
     close |-> close, closes |-> closes, meta |-> meta]

NoCloses == <<>>

\* 200 answers that stop short of a close array
ShapeReplies ==
    { Body("invalid", "absent", "absent", "absent", "absent", "absent", NoCloses, "absent"),
      Body("obj", "absent", "absent", "absent", "absent", "absent", NoCloses, "absent"),
      Body("obj", "obj", "absent", "absent", "absent", "absent", NoCloses, "absent"),
      Body("obj", "obj", "null", "absent", "absent", "absent", NoCloses, "absent"),
      Body("obj", "obj", "empty", "absent", "absent", "absent", NoCloses, "absent"),
      Body("obj", "obj", "list", "absent", "absent", "absent", NoCloses, "obj"),
      Body("obj", "obj", "list", "obj", "absent", "absent", NoCloses, "obj"),
      Body("obj", "obj", "list", "obj", "empty", "absent", NoCloses, "obj"),
      Body("obj", "obj", "list", "obj", "list", "absent", NoCloses, "obj") }

\* 200 answers with a close array
DataReplies(series) ==
    { Body("obj", "obj", "list", "obj", "list", "list", c, m) :
        c \in series, m \in {"obj", "absent"} }

FailureReplies == {Failure("Timeout"), Failure("ConnectionError")}

StatusReplies == {Status(c) : c \in {401, 404, 429, 500, 503}}

-----------------------------------------------------------------------------
(* fetch_yahoo_data, from line 113 on: what it raises or returns for a reply *)

FetchRaise(exc, status_code, detail) ==
    [exc |-> exc, status_code |-> status_code, detail |-> detail,
     symbol |-> <<>>, closes |-> <<>>]

\* the provider's meta.symbol is the symbol it was asked for
FetchReturn(symbol, closes) ==
    [exc |-> "none", status_code |-> 0, detail |-> "", symbol |-> symbol, closes |-> closes]

\* closes = [c for c in closes if c is not None]
RECURSIVE not_none(_)
not_none(cs) ==
    IF cs = <<>> THEN <<>>
    ELSE IF Head(cs) = Null THEN not_none(Tail(cs))
    ELSE <<Head(cs)>> \o not_none(Tail(cs))

fetch_yahoo_data(symbol, r) ==
    IF r.outcome # "response" THEN FetchRaise(r.outcome, 0, "")
    ELSE IF r.status_code # 200
    THEN FetchRaise("HTTPException", r.status_code, "Yahoo Finance API error")
    ELSE IF r.json = "invalid" THEN FetchRaise("JSONDecodeError", 0, "")
    ELSE IF r.chart = "absent" \/ r.result = "absent" \/ r.result \in {"null", "empty"}
    THEN FetchRaise("HTTPException", 404, "veri bulunamadi")
    ELSE IF r.indicators = "absent" \/ r.quote = "absent"
    THEN FetchRaise("HTTPException", 404, "fiyat verisi bulunamadi")
    ELSE IF r.quote = "empty" THEN FetchRaise("IndexError", 0, "")
    ELSE LET closes == not_none(IF r.close = "absent" THEN <<>> ELSE r.closes)
         IN  IF closes = <<>>
             THEN FetchRaise("HTTPException", 404, "kapanis verisi bulunamadi")
             ELSE IF r.meta = "absent" THEN FetchRaise("KeyError", 0, "")
             ELSE FetchReturn(symbol, closes)

-----------------------------------------------------------------------------
(* analyze_stock *)

API_SECRET == "merf_stock_secret_123"

\* Header(None): no X-Api-Token header
NoToken == "None"

Reqs == 1..NumReqs

NoRequest == [symbol |-> <<>>, period |-> "", interval |-> "", x_api_token |-> NoToken]

NoCall ==
    [n |-> 0, symbol |-> <<>>, period1 |-> 0, period2 |-> 0, interval |-> "",
     reads |-> <<0, 0, 0>>]

NoResp ==
    [kind |-> "none", status_code |-> 0, detail |-> "", exc |-> "none", symbol |-> <<>>,
     price |-> 0, change_percent |-> 0, rsi |-> 0, recommendation |-> "",
     period |-> "", data_points |-> 0]

\* raise HTTPException(status_code, detail); exc names the exception a
\* "Veri cekme hatasi" detail quotes
HttpError(status_code, detail, exc) ==
    [NoResp EXCEPT !.kind = "HTTPException", !.status_code = status_code,
                   !.detail = detail, !.exc = exc]

\* an exception that leaves analyze_stock
Unhandled(exc) == [NoResp EXCEPT !.kind = "unhandled", !.exc = exc]

\* line 153 accepting a request that carries no token
authorizedLax(x_api_token) == x_api_token = API_SECRET \/ x_api_token = NoToken

\* line 153
authorized(x_api_token) == x_api_token = API_SECRET

\* lines 174-178 with the thresholds included
recommendInclusive(rsi_val) ==
    IF rsi_val <= 3000 THEN "AL (Asiri Satim)"
    ELSE IF rsi_val >= 7000 THEN "SAT (Asiri Alim)"
    ELSE "NOTR"

\* lines 174-178
recommend(rsi_val) ==
    IF rsi_val < 3000 THEN "AL (Asiri Satim)"
    ELSE IF rsi_val > 7000 THEN "SAT (Asiri Alim)"
    ELSE "NOTR"

\* line 170: ((current_price - start_price) / start_price) * 100, then the
\* round(.., 2) of line 183
change_pct(current_price, start_price) ==
    IF start_price = 0 THEN Raised("ZeroDivisionError")
    ELSE Returned(RoundDiv(10000 * (current_price - start_price), start_price))

\* lines 167-188
assemble(req, data) ==
    LET closes        == data.closes
        current_price == closes[Len(closes)]
        start_price   == closes[1]
        pct           == change_pct(current_price, start_price)
        rsi_val       == calculate_rsi(closes, 14)
    IN  IF pct.exc # "none" THEN Unhandled(pct.exc)
        ELSE IF rsi_val.exc # "none" THEN Unhandled(rsi_val.exc)
        ELSE [NoResp EXCEPT !.kind = "ok", !.status_code = 200,
                            !.symbol = data.symbol,
                            !.price = 100 * current_price,
                            !.change_percent = pct.val,
                            !.rsi = rsi_val.val,
                            !.recommendation = recommend(rsi_val.val),
                            !.period = req.period,
                            !.data_points = Len(closes)]

\* lines 160-165 with every exception of the fetch wrapped as 500
after_fetchWrapAll(req, data) ==
    IF data.exc # "none"
    THEN HttpError(500, "Veri cekme hatasi", data.exc)
    ELSE assemble(req, data)

\* lines 160-188: the except clauses, then the rest of the handler
after_fetch(req, data) ==
    IF data.exc = "HTTPException"
    THEN HttpError(data.status_code, data.detail, "none")
    ELSE IF data.exc # "none"
    THEN HttpError(500, "Veri cekme hatasi", data.exc)
    ELSE assemble(req, data)

\* a handler that calls the provider again when the fetch failed
calls_after_fetchRetry(c, data) == IF data.exc # "none" THEN [c EXCEPT !.n = @ + 1] ELSE c

\* lines 160-165: a failed fetch is raised on, the provider is not called again
calls_after_fetch(c, data) == c

\* lines 96-113: the window and the GET; reads keeps the three readings of
\* the clock the window was computed from
issue_get(c, symbol, period, interval, t1, exact1, t2, t3) ==
    LET period_seconds == get_period_seconds(period, t1, exact1, t2)
        end_time       == t3
        start_time     == end_time - period_seconds
    IN  [n |-> c.n + 1, symbol |-> symbol, period1 |-> start_time,
         period2 |-> end_time, interval |-> interval, reads |-> <<t1, t2, t3>>]

\* POST /analyze arrives at slot r: lines 152-158, then fetch_yahoo_data up to
\* the GET of line 113.  t1, t2, t3 are the three readings of the clock
\* (lines 88, 88, 97).
AnalyzeStart(r, tokens, symbols, periods, intervals, times) ==
    /\ pc[r] = "idle"
    /\ \E tok \in tokens, sym \in symbols, per \in periods, itv \in intervals :
         LET req == [symbol |-> sym, period |-> per, interval |-> itv, x_api_token |-> tok]
         IN  /\ request' = [request EXCEPT ![r] = req]
             /\ IF ~authorized(tok)
                THEN /\ resp' = [resp EXCEPT ![r] = HttpError(401, "Yetkisiz Erisim!", "none")]
                     /\ pc' = [pc EXCEPT ![r] = "done"]
                     /\ UNCHANGED <<call, clock>>
                ELSE \E t1 \in times, t2 \in times, t3 \in times, exact1 \in BOOLEAN :
                       /\ clock <= t1 /\ t1 <= t2 /\ t2 <= t3 /\ t3 - t1 <= MaxSkew
                       /\ clock' = t3
                       /\ call' = [call EXCEPT ![r] =
                                     issue_get(@, normalize_symbol(sym), per, itv,
                                               t1, exact1, t2, t3)]
                       /\ pc' = [pc EXCEPT ![r] = "fetching"]
                       /\ UNCHANGED resp
    /\ UNCHANGED <<reply, rsiVars>>

\* requests.get of slot r returns or raises: lines 113-141 and 160-188
AnalyzeFinish(r, replies) ==
    /\ pc[r] = "fetching"
    /\ \E rep \in replies :
         LET data == fetch_yahoo_data(call[r].symbol, rep)
         IN  /\ reply' = [reply EXCEPT ![r] = rep]
             /\ call' = [call EXCEPT ![r] = calls_after_fetch(@, data)]
             /\ resp' = [resp EXCEPT ![r] = after_fetch(request[r], data)]
    /\ pc' = [pc EXCEPT ![r] = "done"]
    /\ UNCHANGED <<request, clock, rsiVars>>

\* the response is sent and everything built for the request is dropped
Respond(r) ==
    /\ pc[r] = "done"
    /\ pc' = [pc EXCEPT ![r] = "idle"]
    /\ request' = [request EXCEPT ![r] = NoRequest]
    /\ call' = [call EXCEPT ![r] = NoCall]
    /\ reply' = [reply EXCEPT ![r] = NoReply]
    /\ resp' = [resp EXCEPT ![r] = NoResp]
    /\ UNCHANGED <<clock, rsiVars>>

\* calculate_rsi called on its own
RsiCall ==
    /\ rsiOut = NoRsi
    /\ rsiOut' = calculate_rsi(closesIn, window_default)
    /\ UNCHANGED <<closesIn, svcVars>>

-----------------------------------------------------------------------------
(* Inputs *)

Tokens == {NoToken, API_SECRET, "wrong"}

Thyao == <<"t", "h", "y", "a", "o">>

Symbols ==
    { Thyao, <<"t", "h", "y", "a", "o", ".", "i", "s">>,
      <<"A", "A", "P", "L", "U", "S", "D">> }

Periods == PeriodKeys \cup {"15m", ""}

\* series with nulls, a single price, a zero first price
GapSeries ==
    { <<>>, <<Null>>, <<Null, Null>>, <<Null, 5, Null, 7>>, <<5>>, <<0, 5>>, <<7, 5, 0>> }

SvcReplies ==
    FailureReplies \cup {Status(404), Status(503)}
    \cup { Body("obj", "obj", "empty", "absent", "absent", "absent", NoCloses, "absent") }
    \cup { Body("obj", "obj", "list", "obj", "list", "list", c, "obj") :
             c \in {<<5, 7>>, <<Null, 4, 4, 8>>} }

PipelineReplies ==
    FailureReplies \cup StatusReplies \cup ShapeReplies \cup DataReplies(GapSeries)
    \cup { Body("obj", "obj", "list", "obj", "list", "list", c, "obj") : c \in RsiInputs }

\* the characters raw symbols are built from: both cases, the letters of
\* "USD" and of the suffix ".IS"
SymbolChars == {"i", "s", "U", "D", "."}

\* every string over SymbolChars up to MaxSymLen characters, and the tickers
\* "thyao", "AAPLUSD", "GOOGLE123", "bp.l", "Usd"
SymbolInputs ==
    UNION { [1..k -> SymbolChars] : k \in 0..MaxSymLen }
    \cup { Thyao, <<"A", "A", "P", "L", "U", "S", "D">>,
           <<"G", "O", "O", "G", "L", "E", "1", "2", "3">>,
           <<"b", "p", ".", "l">>, <<"U", "s", "d">> }

WindowTimes == {MidYear, NewYear - 1, NewYear, NewYear + 1, NewYear + 40 * Day}

-----------------------------------------------------------------------------
(* Specifications *)

SvcInit ==
    /\ pc = [r \in Reqs |-> "idle"]
    /\ request = [r \in Reqs |-> NoRequest]
    /\ call = [r \in Reqs |-> NoCall]
    /\ reply = [r \in Reqs |-> NoReply]
    /\ resp = [r \in Reqs |-> NoResp]
    /\ clock = MidYear

Init == SvcInit /\ closesIn = <<>> /\ rsiOut = NoRsi

\* the service with NumReqs requests in flight at once
Next ==
    \E r \in Reqs :
        \/ AnalyzeStart(r, Tokens, {Thyao}, {"1mo", "ytd"}, {"1d"}, {MidYear, MidYear + 1})
        \/ AnalyzeFinish(r, SvcReplies)
        \/ Respond(r)

Spec == Init /\ [][Next]_vars

\* one request at a time against every kind of provider answer
NextPipeline ==
    \/ AnalyzeStart(1, Tokens, {Thyao}, {"1mo"}, {"1d"}, {MidYear})
    \/ AnalyzeFinish(1, PipelineReplies)
    \/ Respond(1)

SpecPipeline == Init /\ [][NextPipeline]_vars

\* one request at a time with every token, symbol, period token and interval,
\* around a new year
NextRequest ==
    \/ AnalyzeStart(1, Tokens, Symbols, Periods, {"1d", "1wk"}, WindowTimes)
    \/ AnalyzeFinish(1, {Failure("Timeout"), Status(503)})
    \/ Respond(1)

SpecRequest == Init /\ [][NextRequest]_vars

\* one authorised request at a time for every raw symbol of SymbolInputs
NextSymbol ==
    \/ AnalyzeStart(1, {API_SECRET}, SymbolInputs, {"1mo"}, {"1d"}, {MidYear})
    \/ AnalyzeFinish(1, {Failure("Timeout")})
    \/ Respond(1)

SpecSymbol == Init /\ [][NextSymbol]_vars

\* calculate_rsi alone on every series of RsiInputs
InitRsi == SvcInit /\ closesIn \in RsiInputs /\ rsiOut = NoRsi

SpecRsi == InitRsi /\ [][RsiCall]_vars

-----------------------------------------------------------------------------
(* Vocabulary of the claims *)

HasSecret(r) == request[r].x_api_token = API_SECRET

Done(r) == pc[r] = "done"

IsHttp(r, status_code) ==
    resp[r].kind = "HTTPException" /\ resp[r].status_code = status_code

\* the three validation stages of a 200 answer whose body is a JSON object
NoResult(rep) == rep.chart = "absent" \/ rep.result \in {"absent", "null", "empty"}

NoQuote0(rep) ==
    ~NoResult(rep) /\ (rep.indicators = "absent" \/ rep.quote \in {"absent", "empty"})

ClosesEmpty(rep) ==
    /\ ~NoResult(rep) /\ ~NoQuote0(rep)
    /\ not_none(IF rep.close = "absent" THEN <<>> ELSE rep.closes) = <<>>

LacksPriceData(rep) ==
    /\ rep.outcome = "response" /\ rep.status_code = 200 /\ rep.json = "obj"
    /\ (NoResult(rep) \/ NoQuote0(rep) \/ ClosesEmpty(rep))

ProviderFailed(rep) == rep.outcome \in {"Timeout", "ConnectionError"}

ProviderNon200(rep) == rep.outcome = "response" /\ rep.status_code # 200

IsProviderError(r) ==
    resp[r].kind = "HTTPException" /\ resp[r].detail = "Yahoo Finance API error"

IsInternalError(r) ==
    IsHttp(r, 500) /\ resp[r].detail = "Veri cekme hatasi"

DotIS == <<".", "I", "S">>

\* s is some string followed by ".IS"
CarriesSuffix(s) == \E k \in 0..Len(s) : s = SubSeq(s, 1, k) \o DotIS

\* "USD" stands somewhere in s
HoldsUSD(s) ==
    \E k \in 1..Len(s) :
        k + 2 <= Len(s) /\ s[k] = "U" /\ s[k + 1] = "S" /\ s[k + 2] = "D"

\* s with every lower-case letter replaced by its capital
Uppercased(s) ==
    [i \in 1..Len(s) |->
        IF \E j \in 1..26 : LowerChars[j] = s[i]
        THEN UpperChars[CHOOSE j \in 1..26 : LowerChars[j] = s[i]]
        ELSE s[i]]

StrictlyIncreasing(cs) == \A i \in 1..(Len(cs) - 1) : cs[i] < cs[i + 1]

-----------------------------------------------------------------------------
(* Claims *)

\* C1: a request whose token is absent or differs from the secret ends with
\* 401 and, at every moment of that request, the provider has not been called
\* for it, whatever its symbol, period and interval.
C1_UnauthorizedNeverCallsProvider ==
    \A r \in Reqs :
        pc[r] # "idle" /\ ~HasSecret(r) =>
            /\ Done(r) /\ IsHttp(r, 401)
            /\ call[r].n = 0 /\ reply[r] = NoReply

C1_Witness ==
    \E r \in Reqs :
        /\ Done(r) /\ request[r].x_api_token = "wrong" /\ request[r].period = "ytd"
        /\ request[r].interval = "1wk" /\ request[r].symbol # Thyao
        /\ IsHttp(r, 401) /\ call[r].n = 0

\* C2: an authorised request whose 200 answer lacks usable price data at any
\* of the three stages (an empty quote list included) ends with 404.
C2_UnusableDataIsNotFound ==
    \A r \in Reqs :
        Done(r) /\ HasSecret(r) /\ LacksPriceData(reply[r]) => IsHttp(r, 404)

\* C3 as stated: a timeout or network failure, like a non-200 answer, ends the
\* request with a ProviderError and not with the generic internal error.
C3_FailureIsProviderError ==
    \A r \in Reqs :
        Done(r) /\ HasSecret(r) /\ (ProviderFailed(reply[r]) \/ ProviderNon200(reply[r])) =>
            IsProviderError(r) /\ ~IsInternalError(r)

\* C3 amended: a non-200 answer ends the request with a ProviderError that
\* carries the upstream status; a timeout or network failure ends it with the
\* generic 500 of the handler's catch-all, which names the exception.
C3_Non200CarriesStatusFailureIs500 ==
    \A r \in Reqs :
        Done(r) /\ HasSecret(r) =>
            /\ ProviderNon200(reply[r]) =>
                 IsProviderError(r) /\ resp[r].status_code = reply[r].status_code
            /\ ProviderFailed(reply[r]) =>
                 IsInternalError(r) /\ resp[r].exc = reply[r].outcome

C3_Witness ==
    \E r1, r2 \in Reqs :
        /\ Done(r1) /\ reply[r1] = Status(503) /\ IsHttp(r1, 503) /\ IsProviderError(r1)
        /\ Done(r2) /\ reply[r2] = Failure("Timeout") /\ IsInternalError(r2)

\* C4: a 404 is produced only for a 200 answer without usable price data, a
\* 401 only for a missing or wrong token, and a non-200 answer of the provider
\* is never reported as 404 or 401.
C4_CategoriesDistinguishable ==
    \A r \in Reqs :
        Done(r) =>
            /\ IsHttp(r, 404) => LacksPriceData(reply[r])
            /\ IsHttp(r, 401) => ~HasSecret(r)
            /\ HasSecret(r) /\ ProviderNon200(reply[r]) =>
                 ~IsHttp(r, 404) /\ ~IsHttp(r, 401)

\* C5: every exception other than HTTPException raised while an authorised
\* request is handled is caught by analyze_stock and returned as the generic
\* internal error, so every request ends as a success or an HTTPException.
C5_EveryExceptionIsCaught ==
    \A r \in Reqs :
        Done(r) =>
            /\ resp[r].kind \in {"ok", "HTTPException"}
            /\ resp[r].exc # "none" => IsInternalError(r)

\* C6: the provider is called at most once per request: exactly once for an
\* authorised request, also when the call failed, and a successful response is
\* built from the series fetched for that same request.
C6_OneCallPerRequest ==
    \A r \in Reqs :
        /\ call[r].n <= 1
        /\ pc[r] # "idle" /\ HasSecret(r) => call[r].n = 1
        /\ Done(r) /\ resp[r].kind = "ok" =>
             LET own == not_none(reply[r].closes)
             IN  /\ resp[r].data_points = Len(own)
                 /\ resp[r].price = 100 * own[Len(own)]
                 /\ resp[r].rsi = calculate_rsi(own, 14).val

C6_Witness ==
    \E r1, r2 \in Reqs :
        /\ Done(r1) /\ reply[r1] = Failure("Timeout") /\ call[r1].n = 1
        /\ Done(r2) /\ resp[r2].kind = "ok" /\ resp[r2].data_points = 3
        /\ call[r2].n = 1

\* C7: for every period token and request time, end = now,
\* start = end - duration(token) and start < end, with the table's duration,
\* 30 days for an unrecognised token, and for ytd the time since January 1 of
\* the current year.
C7_WindowIsNonEmpty ==
    \A r \in Reqs :
        call[r].n > 0 =>
            LET now      == call[r].reads[1]
                per      == request[r].period
                duration == IF per = "ytd" THEN now - JanFirst(now)
                            ELSE IF per \in PeriodKeys THEN period_map(now, TRUE, now)[per]
                            ELSE 30 * 86400
            IN  /\ call[r].period2 = call[r].reads[3]
                /\ call[r].period1 = call[r].period2 - duration
                /\ call[r].period1 < call[r].period2

\* C8: calculate_rsi with window 14 returns, and never raises, a value in
\* [0, 100] for every non-empty series.
C8_RsiInRange ==
    rsiOut # NoRsi /\ Len(closesIn) >= 1 =>
        rsiOut.exc = "none" /\ rsiOut.val >= 0 /\ rsiOut.val <= 10000

C8_Witness ==
    /\ rsiOut.exc = "none" /\ Len(closesIn) = 16
    /\ rsiOut.val > 0 /\ rsiOut.val < 3000
    /\ \E i, j, k \in 1..15 :
         /\ closesIn[i] < closesIn[i + 1]
         /\ closesIn[j] > closesIn[j + 1]
         /\ closesIn[k] = closesIn[k + 1]

\* C9: for a strictly increasing series of length >= 15, calculate_rsi with
\* window 14 returns exactly 100.0, the average loss being 0 at the seed and
\* after every step of the recurrence.
C9_IncreasingGives100 ==
    rsiOut # NoRsi /\ Len(closesIn) >= 15 /\ StrictlyIncreasing(closesIn) =>
        /\ rsiOut = Returned(10000)
        /\ \A k \in 14..(Len(closesIn) - 1) :
             WilderAvg(Losses(Deltas(closesIn)), 14, k).num = 0

C9_Witness ==
    /\ rsiOut = Returned(10000) /\ Len(closesIn) = 17 /\ StrictlyIncreasing(closesIn)
    /\ closesIn[2] - closesIn[1] # closesIn[3] - closesIn[2]

\* C10: in a successful response the recommendation follows from the rsi of
\* that response alone: AL below 30, SAT above 70, NOTR otherwise, 30 and 70
\* themselves giving NOTR; rsi is calculate_rsi of the filtered closes.
C10_RecommendationFromRsi ==
    \A r \in Reqs :
        Done(r) /\ resp[r].kind = "ok" =>
            /\ resp[r].rsi = calculate_rsi(not_none(reply[r].closes), 14).val
            /\ resp[r].rsi < 3000 => resp[r].recommendation = "AL (Asiri Satim)"
            /\ resp[r].rsi > 7000 => resp[r].recommendation = "SAT (Asiri Alim)"
            /\ resp[r].rsi >= 3000 /\ resp[r].rsi <= 7000 =>
                 resp[r].recommendation = "NOTR"

C10_Witness ==
    \E r \in Reqs :
        /\ Done(r) /\ resp[r].kind = "ok"
        /\ resp[r].rsi = 7000 /\ resp[r].recommendation = "NOTR"

\* C11: the symbol sent to the provider is the uppercased raw symbol, with
\* ".IS" appended exactly when the uppercased symbol has at most 5 characters,
\* does not already end in ".IS" and does not contain "USD"; every raw symbol
\* gets as far as the GET, so normalisation never fails.
C11_SymbolSent ==
    \A r \in Reqs :
        pc[r] # "idle" /\ HasSecret(r) =>
            LET u    == Uppercased(request[r].symbol)
                sent == call[r].symbol
            IN  /\ call[r].n = 1
                /\ sent = u \/ sent = u \o DotIS
                /\ sent = u \o DotIS <=>
                     Len(u) <= 5 /\ ~CarriesSuffix(u) /\ ~HoldsUSD(u)

C11_Witness ==
    \E r \in Reqs :
        /\ pc[r] = "fetching" /\ request[r].symbol = Thyao
        /\ call[r].symbol = <<"T", "H", "Y", "A", "O", ".", "I", "S">>

====
